---- MODULE Spec2Model ----
(***************************************************************************)
(* A model of the PNG chunk codec of picmes: the 4-byte chunk type         *)
(* (src/src/chunk_type.rs) and the chunk with its CRC-32, its byte layout  *)
(* and its parser (src/src/chunk.rs).                                      *)
(*                                                                         *)
(* Bytes are the integers 0..255 and byte buffers are sequences of them.   *)
(* A u32 is the record [hi, lo] of its two 16-bit halves, because the      *)
(* model checker's integers are 32-bit signed and a CRC needs all 32 bits. *)
(***************************************************************************)
EXTENDS Integers, Sequences, FiniteSets, TLC

VARIABLES
    op,      \* the operation that produced the current state
    input,   \* the argument of the last chunk type constructor
    tag,     \* Result<ChunkType> of the last chunk type constructor
    flags,   \* the classification of the chunk type in tag, once computed
    chunk,   \* the Chunk built by Chunk::new
    buf,     \* the byte buffer handed to Chunk::try_from
    res      \* Result<Chunk> of Chunk::try_from(buf)

vars == <<op, input, tag, flags, chunk, buf, res>>

(***************************************************************************)
(* Bounds of the model.                                                    *)
(***************************************************************************)
MaxPayload == 3    \* longest payload (chunk_data / message_bytes)
MaxTrail == 2      \* most bytes following a chunk's envelope in a buffer
MaxStrChars == 4   \* most characters of a text handed to from_str

(***************************************************************************)
(* Result<T, Error> and the outcome of a panic.                            *)
(***************************************************************************)
None == [kind |-> "None"]
Ok(v) == [kind |-> "Ok", value |-> v]
Err(e) == [kind |-> "Err", error |-> e]
Panic == [kind |-> "Panic"]

(***************************************************************************)
(* u32 and its conversions.                                                *)
(***************************************************************************)
U32(h, l) == [hi |-> h, lo |-> l]

\* u32::to_be_bytes
to_be_bytes(x) == <<x.hi \div 256, x.hi % 256, x.lo \div 256, x.lo % 256>>

\* u32::from_be_bytes on a 4-byte array
from_be_bytes(b) == U32(b[1] * 256 + b[2], b[3] * 256 + b[4])

\* `len as u32`: the low 32 bits of a usize
as_u32(n) == U32((n \div 65536) % 65536, n % 65536)

\* `x as usize` (usize is at least 32 bits wide, nothing is lost).  Values of
\* 2^31 and more exceed the checker's integers; they are reported as 2^31 - 1,
\* which is still larger than the length of any buffer of the model, and a
\* length is all this value is ever compared with or used to split at.
as_usize(x) == IF x.hi >= 32768 THEN 32767 * 65536 + 65535 ELSE x.hi * 65536 + x.lo

\* slice::split_at(mid) panics when mid > len
split_at_ok(s, mid) == mid <= Len(s)
split_left(s, mid) == SubSeq(s, 1, mid)
split_right(s, mid) == SubSeq(s, mid + 1, Len(s))

(***************************************************************************)
(* CRC-32/ISO-HDLC (crc crate, CRC_32_ISO_HDLC): reflected polynomial      *)
(* 0xEDB88320, initial value 0xFFFFFFFF, final xor 0xFFFFFFFF.             *)
(***************************************************************************)
RECURSIVE XorBits(_, _, _)
XorBits(a, b, n) ==
    IF n = 0 THEN 0
    ELSE ((a + b) % 2) + 2 * XorBits(a \div 2, b \div 2, n - 1)

Xor8 == [a \in 0..255 |-> [b \in 0..255 |-> XorBits(a, b, 8)]]

Xor16(a, b) == Xor8[a \div 256][b \div 256] * 256 + Xor8[a % 256][b % 256]

U32Xor(p, q) == U32(Xor16(p.hi, q.hi), Xor16(p.lo, q.lo))

U32Shr1(p) == U32(p.hi \div 2, (p.hi % 2) * 32768 + p.lo \div 2)

U32Shr8(p) == U32(p.hi \div 256, (p.hi % 256) * 256 + p.lo \div 256)

\* 0xEDB88320
CrcPoly == U32(60856, 33568)

\* 0xFFFFFFFF
CrcInit == U32(65535, 65535)

RECURSIVE CrcRounds(_, _)
CrcRounds(c, n) ==
    IF n = 0 THEN c
    ELSE CrcRounds(IF c.lo % 2 = 1 THEN U32Xor(U32Shr1(c), CrcPoly) ELSE U32Shr1(c),
                   n - 1)

CrcTable == [i \in 0..255 |-> CrcRounds(U32(0, i), 8)]

RECURSIVE CrcUpdate(_, _, _)
CrcUpdate(c, b, i) ==
    IF i > Len(b) THEN c
    ELSE CrcUpdate(U32Xor(U32Shr8(c), CrcTable[Xor8[c.lo % 256][b[i]]]), b, i + 1)

\* CHECK_SUM_32.checksum(&b)
checksum(b) == U32Xor(CrcUpdate(CrcInit, b, 1), CrcInit)

(***************************************************************************)
(* char::from(u8) maps a byte to the code point U+0000..U+00FF of the same *)
(* number; these are the Unicode properties of those code points.          *)
(***************************************************************************)
\* char::is_lowercase: a-z, U+AA, U+B5, U+BA, U+DF-U+F6, U+F8-U+FF
is_lowercase(c) == c \in (97..122) \cup {170, 181, 186} \cup (223..246) \cup (248..255)

\* char::is_uppercase: A-Z, U+C0-U+D6, U+D8-U+DE
is_uppercase(c) == c \in (65..90) \cup (192..214) \cup (216..222)

\* char::is_alphabetic
is_alphabetic(c) ==
    c \in (65..90) \cup (97..122) \cup {170, 181, 186} \cup (192..214) \cup (216..246)
          \cup (248..255)

\* u8::is_ascii_alphabetic
is_ascii_alphabetic(b) == b \in (65..90) \cup (97..122)

(***************************************************************************)
(* ChunkType (chunk_type.rs).  A ChunkType is its array of 4 bytes.        *)
(***************************************************************************)
ByteLengthError(n) == [variant |-> "ByteLengthError", actual |-> n]
InvalidCharacter == [variant |-> "InvalidCharacter"]

\* impl TryFrom<[u8; 4]> for ChunkType
ChunkType_try_from(value) == Ok(value)

\* a plausible slip: the character check is left out
from_str_unchecked(s) ==
    IF Len(s) # 4 THEN Err(ByteLengthError(Len(s)))
    ELSE Ok(SubSeq(s, 1, 4))

\* impl FromStr for ChunkType; s is the UTF-8 encoding of the text
from_str(s) ==
    IF Len(s) # 4 THEN Err(ByteLengthError(Len(s)))
    ELSE LET ret == SubSeq(s, 1, 4)
             chars_valid == \A i \in 1..Len(s) : is_ascii_alphabetic(s[i])
         IN  IF ~chars_valid THEN Err(InvalidCharacter)
             ELSE Ok(ret)

bytes(t) == t

is_critical(t) ==
    LET char == t[1]
    IN  IF is_lowercase(char) THEN FALSE
        ELSE IF is_uppercase(char) THEN TRUE
        ELSE FALSE

is_public(t) ==
    LET char == t[2]
    IN  IF is_lowercase(char) THEN FALSE
        ELSE IF is_uppercase(char) THEN TRUE
        ELSE FALSE

is_reserved_bit_valid(t) ==
    LET char == t[3]
    IN  IF ~is_alphabetic(char) THEN FALSE
        ELSE IF is_lowercase(char) THEN FALSE
        ELSE IF is_uppercase(char) THEN TRUE
        ELSE FALSE

is_safe_to_copy(t) ==
    LET char == t[4]
    IN  IF is_lowercase(char) THEN TRUE
        ELSE IF is_uppercase(char) THEN FALSE
        ELSE FALSE

\* a plausible slip: the reserved bit is not part of validity
is_valid_chars_only(t) ==
    \A i \in 1..4 : (t[i] >= 97 /\ t[i] <= 122) \/ (t[i] >= 65 /\ t[i] <= 90)

is_valid(t) ==
    LET valid_chars ==
            \A i \in 1..4 : (t[i] >= 97 /\ t[i] <= 122) \/ (t[i] >= 65 /\ t[i] <= 90)
    IN  valid_chars /\ is_reserved_bit_valid(t)

(***************************************************************************)
(* Chunk (chunk.rs).                                                       *)
(***************************************************************************)
InvalidInput(s) == [variant |-> "InvalidInput", msg |-> s]
InvalidChunkType == [variant |-> "InvalidChunkType"]
InvalidCheckSum(e, a) == [variant |-> "InvalidCheckSum", expected |-> e, actual |-> a]

LEN_DATA_LENGTH == 4
CHUNK_TYPE_LENGTH == 4
CRC_LENGTH == 4

\* a plausible slip: the CRC field is not counted
META_DATA_LENGTH_no_crc == LEN_DATA_LENGTH + CHUNK_TYPE_LENGTH

META_DATA_LENGTH == LEN_DATA_LENGTH + CHUNK_TYPE_LENGTH + CRC_LENGTH

NoChunk == [chunk_data |-> <<>>, chunk_type |-> <<>>]

new(chunk_type, chunk_data) == [chunk_type |-> chunk_type, chunk_data |-> chunk_data]

length(c) == Len(c.chunk_data)

\* a plausible slip: the checksum covers the payload only
crc_data_only(c) == checksum(c.chunk_data)

crc(c) ==
    LET b == bytes(c.chunk_type) \o c.chunk_data
    IN  checksum(b)

\* a plausible slip: the length is written little-endian
as_bytes_le(c) ==
    LET data_length == as_u32(Len(c.chunk_data))
        be == to_be_bytes(data_length)
    IN  <<be[4], be[3], be[2], be[1]>> \o bytes(c.chunk_type) \o c.chunk_data
            \o to_be_bytes(crc(c))

as_bytes(c) ==
    LET data_length == as_u32(Len(c.chunk_data))
    IN  to_be_bytes(data_length) \o bytes(c.chunk_type) \o c.chunk_data
            \o to_be_bytes(crc(c))

\* Once the buffer has META_DATA_LENGTH bytes the first two splits, at
\* LEN_DATA_LENGTH and at CHUNK_TYPE_LENGTH, are within it; the split at
\* data_length and the split at CRC_LENGTH after it can panic.

\* a plausible slip: the checksum is computed and never compared
try_from_no_crc_check(value) ==
    IF Len(value) < META_DATA_LENGTH
    THEN Err(InvalidInput("Chunk is too small"))
    ELSE LET data_length_b == split_left(value, LEN_DATA_LENGTH)
             rest1 == split_right(value, LEN_DATA_LENGTH)
             data_length == as_usize(from_be_bytes(data_length_b))
             type_slice == split_left(rest1, CHUNK_TYPE_LENGTH)
             rest2 == split_right(rest1, CHUNK_TYPE_LENGTH)
             chunk_type == ChunkType_try_from(type_slice).value
         IN  IF ~is_valid(chunk_type) THEN Err(InvalidChunkType)
             ELSE IF ~split_at_ok(rest2, data_length) THEN Panic
             ELSE LET data_slice == split_left(rest2, data_length)
                      rest3 == split_right(rest2, data_length)
                  IN  IF ~split_at_ok(rest3, CRC_LENGTH) THEN Panic
                      ELSE LET crc_slice == split_left(rest3, CRC_LENGTH)
                               new_chunk == new(chunk_type, data_slice)
                               new_crc == crc(new_chunk)
                               expected_crc == from_be_bytes(crc_slice)
                           IN  Ok(new_chunk)

\* a plausible slip: the two values of the checksum error are swapped
try_from_swapped(value) ==
    IF Len(value) < META_DATA_LENGTH
    THEN Err(InvalidInput("Chunk is too small"))
    ELSE LET data_length_b == split_left(value, LEN_DATA_LENGTH)
             rest1 == split_right(value, LEN_DATA_LENGTH)
             data_length == as_usize(from_be_bytes(data_length_b))
             type_slice == split_left(rest1, CHUNK_TYPE_LENGTH)
             rest2 == split_right(rest1, CHUNK_TYPE_LENGTH)
             chunk_type == ChunkType_try_from(type_slice).value
         IN  IF ~is_valid(chunk_type) THEN Err(InvalidChunkType)
             ELSE IF ~split_at_ok(rest2, data_length) THEN Panic
             ELSE LET data_slice == split_left(rest2, data_length)
                      rest3 == split_right(rest2, data_length)
                  IN  IF ~split_at_ok(rest3, CRC_LENGTH) THEN Panic
                      ELSE LET crc_slice == split_left(rest3, CRC_LENGTH)
                               new_chunk == new(chunk_type, data_slice)
                               new_crc == crc(new_chunk)
                               expected_crc == from_be_bytes(crc_slice)
                           IN  IF new_crc # expected_crc
                               THEN Err(InvalidCheckSum(new_crc, expected_crc))
                               ELSE Ok(new_chunk)

\* a plausible slip: the checksum is read from the last 4 bytes of the buffer
try_from_crc_at_end(value) ==
    IF Len(value) < META_DATA_LENGTH
    THEN Err(InvalidInput("Chunk is too small"))
    ELSE LET data_length_b == split_left(value, LEN_DATA_LENGTH)
             rest1 == split_right(value, LEN_DATA_LENGTH)
             data_length == as_usize(from_be_bytes(data_length_b))
             type_slice == split_left(rest1, CHUNK_TYPE_LENGTH)
             rest2 == split_right(rest1, CHUNK_TYPE_LENGTH)
             chunk_type == ChunkType_try_from(type_slice).value
         IN  IF ~is_valid(chunk_type) THEN Err(InvalidChunkType)
             ELSE IF ~split_at_ok(rest2, data_length) THEN Panic
             ELSE LET data_slice == split_left(rest2, data_length)
                      rest3 == split_right(rest2, data_length)
                  IN  IF ~split_at_ok(rest3, CRC_LENGTH) THEN Panic
                      ELSE LET crc_slice == SubSeq(rest3, Len(rest3) - CRC_LENGTH + 1, Len(rest3))
                               new_chunk == new(chunk_type, data_slice)
                               new_crc == crc(new_chunk)
                               expected_crc == from_be_bytes(crc_slice)
                           IN  IF new_crc # expected_crc
                               THEN Err(InvalidCheckSum(expected_crc, new_crc))
                               ELSE Ok(new_chunk)

\* impl TryFrom<&[u8]> for Chunk
Chunk_try_from(value) ==
    IF Len(value) < META_DATA_LENGTH
    THEN Err(InvalidInput("Chunk is too small"))
    ELSE LET data_length_b == split_left(value, LEN_DATA_LENGTH)
             rest1 == split_right(value, LEN_DATA_LENGTH)
             data_length == as_usize(from_be_bytes(data_length_b))
             type_slice == split_left(rest1, CHUNK_TYPE_LENGTH)
             rest2 == split_right(rest1, CHUNK_TYPE_LENGTH)
             chunk_type == ChunkType_try_from(type_slice).value
         IN  IF ~is_valid(chunk_type) THEN Err(InvalidChunkType)
             ELSE IF ~split_at_ok(rest2, data_length) THEN Panic
             ELSE LET data_slice == split_left(rest2, data_length)
                      rest3 == split_right(rest2, data_length)
                  IN  IF ~split_at_ok(rest3, CRC_LENGTH) THEN Panic
                      ELSE LET crc_slice == split_left(rest3, CRC_LENGTH)
                               new_chunk == new(chunk_type, data_slice)
                               new_crc == crc(new_chunk)
                               expected_crc == from_be_bytes(crc_slice)
                           IN  IF new_crc # expected_crc
                               THEN Err(InvalidCheckSum(expected_crc, new_crc))
                               ELSE Ok(new_chunk)

(***************************************************************************)
(* The inputs the operations are applied to.                               *)
(***************************************************************************)
\* the characters of the texts: R u S s t 1 and the two-byte e-acute
StrChars == {<<82>>, <<117>>, <<83>>, <<115>>, <<116>>, <<49>>, <<195, 169>>}

RECURSIVE StringsOf(_)
StringsOf(n) ==
    IF n = 0 THEN {<<>>}
    ELSE {s \o c : s \in StringsOf(n - 1), c \in StrChars}

Strings == UNION {StringsOf(n) : n \in 0..MaxStrChars}

\* "RuSt" and "rUsT", with any one byte replaced by any byte
BaseTags == {<<82, 117, 83, 116>>, <<114, 85, 115, 84>>}
RawTags == {[t EXCEPT ![i] = b] : t \in BaseTags, i \in 1..4, b \in 0..255}

\* "RuSt", "bLOb", "Rust", "Ru1t" and "Ru\xC0t"
TagArrays ==
    {<<82, 117, 83, 116>>, <<98, 76, 79, 98>>, <<82, 117, 115, 116>>,
     <<82, 117, 49, 116>>, <<82, 117, 192, 116>>}

DataBytes == {0, 255}
Payloads == UNION {[1..n -> DataBytes] : n \in 0..MaxPayload}

TrailBytes == {0, 82}
Trailers == UNION {[1..n -> TrailBytes] : n \in 0..MaxTrail}

\* length fields: the small ones, 256, 65536 and 2^32 - 1
DataLengths ==
    {as_u32(n) : n \in 0..(MaxPayload + 1)} \cup {U32(0, 256), U32(1, 0), U32(65535, 65535)}

\* CRC fields: the right one, the right one with its last bit flipped, zero
CrcFields(t, m) ==
    LET right == checksum(t \o m)
    IN  {right, U32Xor(right, U32(0, 1)), U32(0, 0)}

(***************************************************************************)
(* The state machine.                                                      *)
(***************************************************************************)
Init ==
    /\ op = "init"
    /\ input = <<>>
    /\ tag = None
    /\ flags = None
    /\ chunk = NoChunk
    /\ buf = <<>>
    /\ res = None

\* ChunkType::from_str(s); a ChunkType is never changed afterwards
FromStr ==
    /\ op = "init"
    /\ \E s \in Strings :
          /\ input' = s
          /\ tag' = from_str(s)
    /\ op' = "from_str"
    /\ flags' = None
    /\ UNCHANGED <<chunk, buf, res>>

\* ChunkType::try_from(value)
TryFromArray ==
    /\ op = "init"
    /\ \E value \in RawTags :
          /\ input' = value
          /\ tag' = ChunkType_try_from(value)
    /\ op' = "try_from"
    /\ flags' = None
    /\ UNCHANGED <<chunk, buf, res>>

\* the five predicates, applied to the chunk type just constructed
Classify ==
    /\ tag.kind = "Ok"
    /\ flags = None
    /\ flags' = [critical |-> is_critical(tag.value),
                 public |-> is_public(tag.value),
                 reserved |-> is_reserved_bit_valid(tag.value),
                 safe |-> is_safe_to_copy(tag.value),
                 valid |-> is_valid(tag.value)]
    /\ UNCHANGED <<op, input, tag, chunk, buf, res>>

\* Chunk::new(chunk_type, chunk_data); a Chunk is never changed afterwards
New ==
    /\ op = "init"
    /\ \E value \in TagArrays, chunk_data \in Payloads :
          chunk' = new(ChunkType_try_from(value).value, chunk_data)
    /\ op' = "new"
    /\ UNCHANGED <<input, tag, flags, buf, res>>

\* chunk.as_bytes()
AsBytes ==
    /\ op = "new"
    /\ buf' = as_bytes(chunk)
    /\ res' = None
    /\ op' = "as_bytes"
    /\ UNCHANGED <<input, tag, flags, chunk>>

\* the serialized chunk is followed by another serialized chunk
Concat ==
    /\ op = "as_bytes"
    /\ \E value \in TagArrays, chunk_data \in Payloads :
          buf' = buf \o as_bytes(new(ChunkType_try_from(value).value, chunk_data))
    /\ res' = None
    /\ op' = "concat"
    /\ UNCHANGED <<input, tag, flags, chunk>>

\* the serialized chunk is followed by one more byte
PushByte ==
    /\ op \in {"as_bytes", "push"}
    /\ Len(buf) < META_DATA_LENGTH + length(chunk) + MaxTrail
    /\ \E b \in TrailBytes : buf' = Append(buf, b)
    /\ res' = None
    /\ op' = "push"
    /\ UNCHANGED <<input, tag, flags, chunk>>

\* a buffer assembled field by field, as the tests do, of which the first n
\* bytes are handed on
BuildBuffer ==
    /\ op = "init"
    /\ \E data_length \in DataLengths, chunk_type \in TagArrays, message_bytes \in Payloads,
          trailer \in Trailers :
          \E crc_field \in CrcFields(chunk_type, message_bytes) :
             LET chunk_data == to_be_bytes(data_length) \o chunk_type \o message_bytes
                                   \o to_be_bytes(crc_field) \o trailer
             IN  \E n \in 0..Len(chunk_data) : buf' = SubSeq(chunk_data, 1, n)
    /\ res' = None
    /\ op' = "build"
    /\ UNCHANGED <<input, tag, flags, chunk>>

\* Chunk::try_from(buf)
Parse ==
    /\ op # "parse"
    /\ res' = Chunk_try_from(buf)
    /\ op' = "parse"
    /\ UNCHANGED <<input, tag, flags, chunk, buf>>

\* chunk types: construction from text and from bytes, and classification
NextTag ==
    \/ FromStr
    \/ TryFromArray
    \/ Classify

SpecTag == Init /\ [][NextTag]_vars

\* a chunk is built, serialized, possibly followed by more bytes, and parsed
NextRoundTrip ==
    \/ New
    \/ AsBytes
    \/ Concat
    \/ PushByte
    \/ Parse

SpecRoundTrip == Init /\ [][NextRoundTrip]_vars

\* buffers assembled by hand are parsed
NextParse ==
    \/ BuildBuffer
    \/ Parse

SpecParse == Init /\ [][NextParse]_vars

(***************************************************************************)
(* The properties.  They are stated over bytes and byte ranges, not with   *)
(* the operators above, so that the code decides them.                     *)
(***************************************************************************)
AsciiUpper == 65..90
AsciiLower == 97..122
AsciiLetters == AsciiUpper \cup AsciiLower

\* all four bytes are ASCII letters and byte 2 is uppercase
ValidTagBytes(t) == (\A i \in 1..4 : t[i] \in AsciiLetters) /\ t[3] \in AsciiUpper

\* the 4 bytes of a 32-bit value, most significant first
BigEndian(x) == <<x.hi \div 256, x.hi % 256, x.lo \div 256, x.lo % 256>>

\* the length field of a buffer of 4 bytes or more is the number n < 65536
LengthFieldIs(b, n) == b[1] = 0 /\ b[2] = 0 /\ b[3] * 256 + b[4] = n

\* the length field of a buffer of 12 bytes or more fits the buffer
Structural(b) ==
    /\ Len(b) >= 12
    /\ b[1] = 0
    /\ b[2] = 0
    /\ 12 + b[3] * 256 + b[4] <= Len(b)

\* of a structural buffer: the payload length, the checksum field and the
\* CRC-32 of its tag and payload
FieldL(b) == b[3] * 256 + b[4]
FieldCrc(b) == SubSeq(b, 9 + FieldL(b), 12 + FieldL(b))
CrcOver(b) == checksum(SubSeq(b, 5, 8 + FieldL(b)))

TooSmall == [kind |-> "Err", error |-> [variant |-> "InvalidInput", msg |-> "Chunk is too small"]]
BadType == [kind |-> "Err", error |-> [variant |-> "InvalidChunkType"]]

\* C1: a chunk with a valid type, serialized and parsed, comes back with the
\* same type bytes, the same payload and the same CRC.
C1_RoundTrip ==
    (op = "parse" /\ chunk # NoChunk /\ is_valid(chunk.chunk_type) /\ buf = as_bytes(chunk)) =>
        /\ res.kind = "Ok"
        /\ bytes(res.value.chunk_type) = bytes(chunk.chunk_type)
        /\ res.value.chunk_data = chunk.chunk_data
        /\ crc(res.value) = crc(chunk)

C1_Witness ==
    /\ op = "parse"
    /\ chunk # NoChunk
    /\ is_valid(chunk.chunk_type)
    /\ length(chunk) = 2
    /\ buf = as_bytes(chunk)
    /\ res.kind = "Ok"

\* C2: parsing a buffer of 12 bytes or more with a valid type whose length
\* field exceeds the bytes after the type, or leaves fewer than 4 bytes for the
\* checksum, returns an error; it does not panic.
C2_BadLengthIsAnError ==
    (op = "parse" /\ Len(buf) >= 12 /\ ValidTagBytes(SubSeq(buf, 5, 8))
        /\ ~Structural(buf)) => res.kind = "Err"

\* C3: a buffer of 12 bytes or more whose type bytes are not a valid type is
\* rejected with InvalidChunkType, whatever its length field, payload and
\* checksum field are.
C3_InvalidTypeFirst ==
    (op = "parse" /\ Len(buf) >= 12 /\ ~ValidTagBytes(SubSeq(buf, 5, 8))) => res = BadType

\* byte 2 lowercase, in a buffer that is otherwise well formed, its checksum
\* field matching the CRC-32 of the tampered type and the payload
C3_Witness ==
    /\ op = "parse"
    /\ Structural(buf)
    /\ FieldL(buf) >= 1
    /\ \A i \in 5..8 : buf[i] \in AsciiLetters
    /\ buf[7] \in AsciiLower
    /\ FieldCrc(buf) = BigEndian(CrcOver(buf))
    /\ res = BadType

\* C4: a structurally well formed buffer with a valid type whose checksum field
\* differs from the CRC-32 of type and payload is rejected with
\* InvalidCheckSum(the field's value, the computed CRC-32).
C4_ChecksumMismatch ==
    (op = "parse" /\ Structural(buf) /\ ValidTagBytes(SubSeq(buf, 5, 8))
        /\ FieldCrc(buf) # BigEndian(CrcOver(buf))) =>
        /\ res.kind = "Err"
        /\ res.error.variant = "InvalidCheckSum"
        /\ BigEndian(res.error.expected) = FieldCrc(buf)
        /\ res.error.actual = CrcOver(buf)

C4_Witness ==
    /\ op = "parse"
    /\ Structural(buf)
    /\ FieldL(buf) >= 1
    /\ ValidTagBytes(SubSeq(buf, 5, 8))
    /\ FieldCrc(buf) # BigEndian(CrcOver(buf))
    /\ FieldCrc(buf) # <<0, 0, 0, 0>>
    /\ res.kind = "Err"
    /\ res.error.variant = "InvalidCheckSum"

\* C5: every buffer shorter than 12 bytes is rejected with
\* InvalidInput("Chunk is too small"), before its type is looked at.
C5_TooSmall ==
    (op = "parse" /\ Len(buf) < 12) => res = TooSmall

\* 11 bytes, of which bytes 4..8 are not a valid type
C5_Witness ==
    /\ op = "parse"
    /\ Len(buf) = 11
    /\ ~ValidTagBytes(SubSeq(buf, 5, 8))
    /\ res = TooSmall

\* C6: as_bytes() is 12 + length() bytes: the payload length big-endian, the 4
\* type bytes, the payload, and the CRC-32 of type and payload big-endian.
C6_Layout ==
    op = "as_bytes" =>
        LET L == length(chunk)
        IN  /\ Len(buf) = 12 + L
            /\ LengthFieldIs(buf, L)
            /\ SubSeq(buf, 5, 8) = chunk.chunk_type
            /\ SubSeq(buf, 9, 8 + L) = chunk.chunk_data
            /\ SubSeq(buf, 9 + L, 12 + L) = BigEndian(checksum(SubSeq(buf, 5, 8 + L)))
            /\ SubSeq(buf, 9 + L, 12 + L) = BigEndian(crc(chunk))

C6_Witness ==
    /\ op = "as_bytes"
    /\ length(chunk) = 2
    /\ chunk.chunk_data[1] # chunk.chunk_data[2]
    /\ Len(buf) = 14

\* C7: each classification predicate is false when the byte it inspects is
\* not an ASCII letter, and for an ASCII letter tells uppercase (bytes 0, 1, 2)
\* or lowercase (byte 3).
C7_AsciiClassification ==
    flags # None =>
        /\ flags.critical = (tag.value[1] \in AsciiUpper)
        /\ flags.public = (tag.value[2] \in AsciiUpper)
        /\ flags.reserved = (tag.value[3] \in AsciiUpper)
        /\ flags.safe = (tag.value[4] \in AsciiLower)

\* C8: from_str fails with ByteLengthError on a text that is not 4 bytes long,
\* else with InvalidCharacter on a byte that is no ASCII letter, else returns
\* the chunk type of the 4 bytes, as try_from does; "Rust" is constructed and
\* is not valid, "Ru1t" is not constructed.
C8_FromStr ==
    /\ op = "from_str" =>
        IF Len(input) # 4
        THEN tag = [kind |-> "Err",
                    error |-> [variant |-> "ByteLengthError", actual |-> Len(input)]]
        ELSE IF \E i \in 1..4 : input[i] \notin AsciiLetters
        THEN tag = [kind |-> "Err", error |-> [variant |-> "InvalidCharacter"]]
        ELSE /\ tag.kind = "Ok"
             /\ bytes(tag.value) = input
             /\ tag = ChunkType_try_from(input)
    /\ (op = "from_str" /\ input = <<82, 117, 115, 116>> /\ flags # None) => ~flags.valid
    /\ (op = "from_str" /\ input = <<82, 117, 49, 116>>) => tag.kind = "Err"

\* "Rust" constructed and found not valid
C8_Witness ==
    /\ op = "from_str"
    /\ input = <<82, 117, 115, 116>>
    /\ tag.kind = "Ok"
    /\ flags # None
    /\ ~flags.valid

\* C9: a serialized chunk with a valid type followed by any bytes parses to
\* that chunk.
C9_TrailingIgnored ==
    (op = "parse" /\ chunk # NoChunk /\ is_valid(chunk.chunk_type) /\ Len(buf) >= 12 + length(chunk)
        /\ SubSeq(buf, 1, 12 + length(chunk)) = as_bytes(chunk)) =>
        /\ res.kind = "Ok"
        /\ res.value = chunk

\* the chunk is followed by a second serialized chunk
C9_Witness ==
    /\ op = "parse"
    /\ chunk # NoChunk
    /\ is_valid(chunk.chunk_type)
    /\ Len(buf) >= 12 + length(chunk) + 12
    /\ SubSeq(buf, 1, 12 + length(chunk)) = as_bytes(chunk)
    /\ res.kind = "Ok"
    /\ res.value = chunk

\* C10: when parsing returns a chunk, the buffer starts with that chunk's
\* serialization: its length field is the payload length, its type bytes are
\* the chunk's and valid, its payload is the chunk's, and its checksum field is
\* the chunk's CRC-32.
C10_ParseSound ==
    (op = "parse" /\ res.kind = "Ok") =>
        LET c == res.value
            L == length(c)
        IN  /\ Len(buf) >= 12 + L
            /\ LengthFieldIs(buf, L)
            /\ bytes(c.chunk_type) = SubSeq(buf, 5, 8)
            /\ ValidTagBytes(bytes(c.chunk_type))
            /\ c.chunk_data = SubSeq(buf, 9, 8 + L)
            /\ BigEndian(checksum(SubSeq(buf, 5, 8 + L))) = SubSeq(buf, 9 + L, 12 + L)
            /\ BigEndian(crc(c)) = SubSeq(buf, 9 + L, 12 + L)
            /\ as_bytes(c) = SubSeq(buf, 1, 12 + L)

\* a buffer of more than 12 + L bytes that parses
C10_Witness ==
    /\ op = "parse"
    /\ res.kind = "Ok"
    /\ length(res.value) >= 1
    /\ Len(buf) > 12 + length(res.value)

====
